---- MODULE Spec2Model ----
(***************************************************************************)
(* The queue-based recording service (class BackendService): MediaRecorder *)
(* fragments are queued, a 250 ms interval drains the queue into an        *)
(* accumulation buffer, and the buffer is flushed to /recording/chunk on a *)
(* final speech result, on a phrase/idle timeout, or when recording stops. *)
(* Also the per-fragment service, which posts every fragment by itself,    *)
(* and the part of the chat interface that calls the service.              *)
(*                                                                         *)
(* JavaScript runs every callback to completion, so one action is one      *)
(* macrotask (with the microtasks it queues).  Time is counted in ms and   *)
(* advances in steps of the interval period.                               *)
(***************************************************************************)
EXTENDS Integers, Sequences, FiniteSets, TLC

\* ---- bounds of the model -------------------------------------------------
MaxTicks == 2       \* interval periods that elapse
MaxFrags == 2       \* non-empty fragments the recorders deliver
MaxStarts == 1      \* calls of startRecording
MaxStops == 1       \* calls of stopRecording
MaxSpeech == 2      \* recognition result events
BriefTicks == 1     \* interval periods of a brief session
BriefFrags == 1     \* fragments delivered in a brief session
BriefStarts == 1    \* calls of startRecording around a brief session
BriefStops == 1     \* calls of stopRecording around a brief session
BriefSpeech == 1    \* recognition result events in a brief session
FailTicks == 2      \* interval periods of a session whose uploads may fail
FailFrags == 2      \* fragments delivered in such a session
FailSpeech == 2     \* recognition result events in such a session
ShutTicks == 4      \* interval periods around a session whose start or stop fails
ShutFrags == 1      \* fragments delivered in such a session
ShutStarts == 1     \* calls of startRecording around such a session
ShutStops == 2      \* calls of stopRecording around such a session
MuteTicks == 14     \* interval periods of a session whose recogniser fails
MuteFrags == 1      \* fragments delivered in such a session
UiStarts == 2       \* startRecording calls the interface makes
UiStops == 2        \* stopRecording calls the interface makes
IdleTicks == 15     \* interval periods of a session that stays idle after the timeout
IdleFrags == 1      \* fragments delivered in such a session
PairTicks == 1      \* interval periods of a session of either service
PairFrags == 2      \* fragments delivered in such a session
PairStarts == 1     \* calls of startRecording on either service
PairStops == 1      \* calls of stopRecording on either service
LongTicks == 14     \* interval periods of a session that runs into the timeout
LongFrags == 2      \* fragments delivered in such a session
LongSpeech == 1     \* recognition result events in such a session
StreamTicks == 13   \* interval periods of a session with a fragment in each

\* ---- program constants ---------------------------------------------------
NULL == 0
TickMs == 250
PhraseTimeout == 3000
PollMs == 1000

\* A string of the program is a sequence of tokens, so that a transcript
\* (a concatenation) and a literal reason are values of one kind.
Str(s) == <<s>>
Blank == " "
Transcripts == {Str("hello"), Str(Blank)}
\* The transcript of an interim result, which onresult never reads.
Interim == Str("...")

VARIABLES
  \* fields of BackendService
  mediaRecorder,        \* NULL or the index of the recorder in recorders
  currentRecordingId,   \* NULL or the id the backend returned
  speechRecognition,    \* TRUE when the field holds a recognition object
  isListening,
  audioQueue,           \* fragments pushed by ondataavailable
  audioChunks,          \* every fragment kept "for final file"
  processingInterval,   \* NULL or the handle of the processing interval
  transcriptionInterval,\* NULL or the handle of the transcription poll interval
  accumulatedAudio,     \* fragments drained from the queue, pending flush
  lastProcessTime,
  \* the browser and the backend
  now,                  \* Date.now()
  timers,               \* live setInterval handles (processing callbacks)
  pollTimers,           \* live setInterval handles (transcription polls)
  due,                  \* live handles whose callback is due in this period
  nextTimer,            \* the next handle setInterval returns
  recorders,            \* the MediaRecorder objects created so far
  srState,              \* the recognition engine: none/starting/running/stopping/ended
  srResults,            \* event.results of the running recognition (cumulative)
  restartPending,       \* the 100 ms restart timeout of onend is armed
  readers,              \* FileReaders between readAsDataURL and onloadend
  uploads,              \* /recording/chunk requests issued since the session began, and
                        \* earlier ones still unanswered, in issue order
  startPending,         \* startRecording calls awaiting /recording/start
  micPending,           \* startRecording calls awaiting getUserMedia
  stopPc,               \* position inside the synchronous part of stopRecording
  stopPending,          \* stopRecording calls awaiting /recording/stop
  nextId,               \* the next recording id the backend hands out
  \* bookkeeping of the environment and observation of calls
  nFrags, nStarts, nStops, nSpeech,
  drained,              \* fragments moved into accumulatedAudio in this session, in order
  flushCall,            \* the trigger of the call of sendAccumulatedAudio the last step made
  lastFlushTime,        \* when sendAccumulatedAudio last took a payload (or start)
  stopAt,               \* fragments delivered when stopRecording passed its precondition
                        \* in this session, else -1
  outcome,              \* what the last step threw to its caller and which request it sent
  \* state of the chat interface (MainInterface)
  isRecording,
  endPending,           \* handleEndCall is awaiting stopRecording
  backendStatus,        \* 'connecting', 'connected' or 'error'
  health,               \* the mount-time healthCheck: pending/ok/failed/simulated
  \* which of the two BackendService classes is running
  service

svcVars == <<mediaRecorder, currentRecordingId, speechRecognition, isListening,
             audioQueue, audioChunks, processingInterval, transcriptionInterval,
             accumulatedAudio, lastProcessTime>>
envVars == <<now, timers, pollTimers, due, nextTimer, recorders, srState, srResults,
             restartPending, readers, uploads, startPending, micPending,
             stopPc, stopPending, nextId>>
obsVars == <<nFrags, nStarts, nStops, nSpeech, drained, flushCall,
             lastFlushTime, stopAt, outcome>>
uiVars == <<isRecording, endPending, backendStatus, health>>
vars == <<svcVars, envVars, obsVars, uiVars, service>>

\* ---- helpers ---------------------------------------------------------------
\* flushCall: the trigger the last step passed to sendAccumulatedAudio, else <<>>.
NoCall == <<>>

\* outcome: the error the step threw to the caller of the service, and the
\* endpoint of the request the step sent; empty strings when there is none.
Outcome(e, q) == [error |-> e, request |-> q]
Quiet == Outcome("", "")

RemoveAt(s, i) == [j \in 1..(Len(s) - 1) |-> IF j < i THEN s[j] ELSE s[j + 1]]

Range(s) == {s[i] : i \in 1..Len(s)}

\* String.prototype.trim on a token string: drop blanks at both ends.
RECURSIVE TrimLeft(_)
TrimLeft(s) == IF s # <<>> /\ Head(s) = Blank THEN TrimLeft(Tail(s)) ELSE s
RECURSIVE TrimRight(_)
TrimRight(s) ==
  IF s # <<>> /\ s[Len(s)] = Blank THEN TrimRight(SubSeq(s, 1, Len(s) - 1)) ELSE s
Trim(s) == TrimRight(TrimLeft(s))

\* The synchronous part of sendAccumulatedAudio: nothing on an empty buffer or
\* without a recording id; otherwise a Blob of the buffer's fragments is handed
\* to a FileReader.  The buffer itself is left as it is.
sendAccumulatedAudio_NoGuard(buf, rid, rdrs, trigger) ==
  Append(rdrs, [blob |-> buf, trigger |-> trigger])
sendAccumulatedAudio(buf, rid, rdrs, trigger) ==
  IF Len(buf) = 0 \/ rid = NULL
  THEN rdrs
  ELSE Append(rdrs, [blob |-> buf, trigger |-> trigger])

\* A step that calls sendAccumulatedAudio(trigger) on buffer buf, and one that
\* does not.
FlushStep(buf, trigger) ==
  LET rd == sendAccumulatedAudio(buf, currentRecordingId, readers, trigger)
      taken == SubSeq(rd, Len(readers) + 1, Len(rd))
  IN /\ readers' = rd
     /\ flushCall' = trigger
     /\ lastFlushTime' = IF taken # <<>> THEN now ELSE lastFlushTime
NoFlushStep ==
  /\ flushCall' = NoCall
  /\ UNCHANGED <<readers, lastFlushTime>>

\* The live processing intervals after stopContinuousProcessing, and the live
\* poll intervals after stopTranscriptionPolling.
ClearedTimers == IF processingInterval = NULL THEN timers ELSE timers \ {processingInterval}
ClearedPolls ==
  IF transcriptionInterval = NULL THEN pollTimers ELSE pollTimers \ {transcriptionInterval}

\* No callback runs while the synchronous part of stopRecording is running.
Idle == stopPc = "idle"

\* The two implementations of BackendService: the queue-based one and the one
\* that uploads every fragment by itself.
Services == {"queue", "fragment"}

\* A service object after construction and the interface before its first
\* effect has run, whichever implementation is used.
Fresh ==
  /\ mediaRecorder = NULL
  /\ currentRecordingId = NULL
  /\ speechRecognition = FALSE
  /\ isListening = FALSE
  /\ audioQueue = <<>>
  /\ processingInterval = NULL
  /\ transcriptionInterval = NULL
  /\ accumulatedAudio = <<>>
  /\ lastProcessTime = 0
  /\ now = 0
  /\ timers = {}
  /\ pollTimers = {}
  /\ due = {}
  /\ nextTimer = 1
  /\ recorders = <<>>
  /\ srState = "none"
  /\ srResults = <<>>
  /\ restartPending = FALSE
  /\ readers = <<>>
  /\ uploads = <<>>
  /\ startPending = 0
  /\ micPending = 0
  /\ stopPc = "idle"
  /\ stopPending = 0
  /\ nextId = 1
  /\ nFrags = 0
  /\ nStarts = 0
  /\ nStops = 0
  /\ nSpeech = 0
  /\ drained = <<>>
  /\ flushCall = NoCall
  /\ lastFlushTime = 0
  /\ stopAt = -1
  /\ outcome = Quiet
  /\ audioChunks = <<>>
  /\ isRecording = FALSE
  /\ endPending = FALSE
  /\ backendStatus = "connecting"
  /\ health = "pending"

Init == Fresh /\ service = "queue"

\* ---- time and the processing interval ------------------------------------

\* One interval period passes; every live interval becomes due once.  Time is
\* followed from the first session on.
Advance(maxTicks) ==
  /\ Idle
  /\ due = {}
  /\ currentRecordingId # NULL \/ timers # {} \/ pollTimers # {}
  /\ now < maxTicks * TickMs
  /\ now' = now + TickMs
  /\ due' = timers
  /\ flushCall' = NoCall
  /\ outcome' = Quiet
  /\ UNCHANGED <<svcVars, timers, pollTimers, nextTimer, recorders, srState, srResults,
                 restartPending, readers, uploads, startPending, micPending,
                 stopPc, stopPending, nextId, nFrags, nStarts, nStops, nSpeech,
                 drained, lastFlushTime,  stopAt>>
  /\ UNCHANGED <<uiVars, service>>

\* The interval callback of startContinuousProcessing.
Tick_KeepsQueue(t) ==
  /\ Idle
  /\ t \in due
  /\ due' = due \ {t}
  /\ outcome' = Quiet
  /\ IF Len(audioQueue) > 0
     THEN LET buf == accumulatedAudio \o audioQueue
              timeSinceLastProcess == now - lastProcessTime
          IN /\ audioQueue' = audioQueue
             /\ accumulatedAudio' = buf
             /\ drained' = drained \o audioQueue
             /\ IF timeSinceLastProcess > PhraseTimeout
                THEN FlushStep(buf, Str("phrase_timeout"))
                ELSE NoFlushStep
             /\ lastProcessTime' = now
     ELSE LET timeSinceLastProcess == now - lastProcessTime
          IN /\ IF Len(accumulatedAudio) > 0 /\ timeSinceLastProcess > PhraseTimeout
                THEN FlushStep(accumulatedAudio, Str("idle_timeout"))
                ELSE NoFlushStep
             /\ UNCHANGED <<audioQueue, accumulatedAudio, drained, lastProcessTime>>
  /\ UNCHANGED <<mediaRecorder, currentRecordingId, speechRecognition, isListening,
                 processingInterval, transcriptionInterval, now, timers, pollTimers, nextTimer, recorders, srState,
                 srResults, restartPending, uploads, startPending, micPending,
                 stopPc, stopPending, nextId, nFrags, nStarts, nStops, nSpeech,
                  stopAt>>
  /\ UNCHANGED <<audioChunks, uiVars, service>>
Tick(t) ==
  /\ Idle
  /\ t \in due
  /\ due' = due \ {t}
  /\ outcome' = Quiet
  /\ IF Len(audioQueue) > 0
     THEN LET buf == accumulatedAudio \o audioQueue
              timeSinceLastProcess == now - lastProcessTime
          IN /\ audioQueue' = <<>>
             /\ accumulatedAudio' = buf
             /\ drained' = drained \o audioQueue
             /\ IF timeSinceLastProcess > PhraseTimeout
                THEN FlushStep(buf, Str("phrase_timeout"))
                ELSE NoFlushStep
             /\ lastProcessTime' = now
     ELSE LET timeSinceLastProcess == now - lastProcessTime
          IN /\ IF Len(accumulatedAudio) > 0 /\ timeSinceLastProcess > PhraseTimeout
                THEN FlushStep(accumulatedAudio, Str("idle_timeout"))
                ELSE NoFlushStep
             /\ UNCHANGED <<audioQueue, accumulatedAudio, drained, lastProcessTime>>
  /\ UNCHANGED <<mediaRecorder, currentRecordingId, speechRecognition, isListening,
                 processingInterval, transcriptionInterval, now, timers, pollTimers, nextTimer, recorders, srState,
                 srResults, restartPending, uploads, startPending, micPending,
                 stopPc, stopPending, nextId, nFrags, nStarts, nStops, nSpeech,
                  stopAt>>
  /\ UNCHANGED <<audioChunks, uiVars, service>>

\* ---- the recorder -----------------------------------------------------------

\* mediaRecorder.ondataavailable: a fragment of size 0 is dropped, any other is
\* pushed on the queue.  (audioChunks, which also receives it, is never read.)
ondataavailable(size) ==
  IF size > 0
  THEN /\ audioQueue' = Append(audioQueue, nFrags + 1)
       /\ audioChunks' = Append(audioChunks, nFrags + 1)
       /\ nFrags' = nFrags + 1
  ELSE UNCHANGED <<audioQueue, audioChunks, nFrags>>

\* A recorder that is recording delivers its next timeslice.  The handler closes
\* over the service, so a recorder the service no longer holds still feeds it.
DataAvailable(r, size, maxFrags) ==
  /\ Idle
  /\ r \in 1..Len(recorders)
  /\ recorders[r].state = "recording"
  /\ size > 0 => nFrags < maxFrags
  /\ ondataavailable(size)
  /\ flushCall' = NoCall
  /\ outcome' = Quiet
  /\ UNCHANGED <<mediaRecorder, currentRecordingId, speechRecognition, isListening,
                 processingInterval, transcriptionInterval, accumulatedAudio, lastProcessTime, envVars,
                 nStarts, nStops, nSpeech, drained, lastFlushTime,  stopAt>>
  /\ UNCHANGED <<uiVars, service>>

\* MediaRecorder.stop() queues a task that delivers the data gathered since the
\* last timeslice (possibly none) to ondataavailable.
FinalData(r, size, maxFrags) ==
  /\ Idle
  /\ r \in 1..Len(recorders)
  /\ recorders[r].finalPending
  /\ size > 0 => nFrags < maxFrags
  /\ ondataavailable(size)
  /\ recorders' = [recorders EXCEPT ![r].finalPending = FALSE]
  /\ flushCall' = NoCall
  /\ outcome' = Quiet
  /\ UNCHANGED <<mediaRecorder, currentRecordingId, speechRecognition, isListening,
                 processingInterval, transcriptionInterval, accumulatedAudio, lastProcessTime,
                 now, timers, pollTimers, due, nextTimer, srState, srResults, restartPending,
                 readers, uploads, startPending, micPending, stopPc, stopPending,
                 nextId, nStarts, nStops, nSpeech, drained, lastFlushTime, 
                 stopAt>>
  /\ UNCHANGED <<uiVars, service>>

\* The recorder fails (its error event, which the service only logs): it
\* becomes inactive by itself and delivers what it has gathered; its tracks are
\* not stopped.
RecorderError(r) ==
  /\ Idle
  /\ r \in 1..Len(recorders)
  /\ recorders[r].state = "recording"
  /\ recorders' = [recorders EXCEPT ![r].state = "inactive", ![r].finalPending = TRUE]
  /\ flushCall' = NoCall
  /\ outcome' = Quiet
  /\ UNCHANGED <<svcVars, now, timers, pollTimers, due, nextTimer, srState, srResults,
                 restartPending, readers, uploads, startPending, micPending, stopPc,
                 stopPending, nextId, nFrags, nStarts, nStops, nSpeech, drained,
                 lastFlushTime, stopAt>>
  /\ UNCHANGED <<uiVars, service>>

\* ---- encoding and upload of a flushed payload ------------------------------

\* reader.onloadend: the request is built from the encoded Blob and from the
\* service's fields as they are now, and sent.
ReaderLoadEnd(i) ==
  /\ Idle
  /\ i \in 1..Len(readers)
  /\ uploads' = Append(uploads,
                        [recording_id |-> currentRecordingId,
                         audio_data |-> readers[i].blob,
                         detected_speech |-> readers[i].trigger,
                         chunk_count |-> Len(accumulatedAudio),
                         status |-> "pending"])
  /\ readers' = RemoveAt(readers, i)
  /\ flushCall' = NoCall
  /\ outcome' = Outcome("", "/recording/chunk")
  /\ UNCHANGED <<svcVars, now, timers, pollTimers, due, nextTimer, recorders, srState, srResults,
                 restartPending, startPending, micPending, stopPc, stopPending,
                 nextId, nFrags, nStarts, nStops, nSpeech, drained, lastFlushTime,
                  stopAt>>
  /\ UNCHANGED <<uiVars, service>>

\* The chunk request succeeded: the buffer is cleared.  With keep the answered
\* request stays in uploads, for the properties that speak of all the uploads
\* of a session; without it uploads holds the unanswered requests only.
ChunkOk(i, keep) ==
  /\ Idle
  /\ i \in 1..Len(uploads)
  /\ uploads[i].status = "pending"
  /\ uploads' = IF keep THEN [uploads EXCEPT ![i].status = "ok"]
                      ELSE RemoveAt(uploads, i)
  /\ accumulatedAudio' = <<>>
  /\ flushCall' = NoCall
  /\ outcome' = Quiet
  /\ UNCHANGED <<mediaRecorder, currentRecordingId, speechRecognition, isListening,
                 audioQueue, processingInterval, transcriptionInterval, lastProcessTime,
                 now, timers, pollTimers, due, nextTimer, recorders, srState, srResults,
                 restartPending, readers, startPending, micPending, stopPc,
                 stopPending, nextId, nFrags, nStarts, nStops, nSpeech, drained,
                 lastFlushTime,  stopAt>>
  /\ UNCHANGED <<audioChunks, uiVars, service>>

\* The chunk request failed (rejected, or an HTTP error): logged, nothing else.
ChunkFail_StopsProcessing(i, keep) ==
  /\ Idle
  /\ i \in 1..Len(uploads)
  /\ uploads[i].status = "pending"
  /\ uploads' = IF keep THEN [uploads EXCEPT ![i].status = "failed"]
                      ELSE RemoveAt(uploads, i)
  /\ timers' = ClearedTimers
  /\ due' = due \cap ClearedTimers
  /\ processingInterval' = NULL
  /\ flushCall' = NoCall
  /\ outcome' = Quiet
  /\ UNCHANGED <<mediaRecorder, currentRecordingId, speechRecognition, isListening,
                 audioQueue, transcriptionInterval, accumulatedAudio, lastProcessTime,
                 now, pollTimers, nextTimer, recorders, srState, srResults,
                 restartPending, readers, startPending, micPending, stopPc,
                 stopPending, nextId, nFrags, nStarts, nStops, nSpeech, drained,
                 lastFlushTime, stopAt>>
  /\ UNCHANGED <<audioChunks, uiVars, service>>
ChunkFail(i, keep) ==
  /\ Idle
  /\ i \in 1..Len(uploads)
  /\ uploads[i].status = "pending"
  /\ uploads' = IF keep THEN [uploads EXCEPT ![i].status = "failed"]
                      ELSE RemoveAt(uploads, i)
  /\ flushCall' = NoCall
  /\ outcome' = Quiet
  /\ UNCHANGED <<svcVars, now, timers, pollTimers, due, nextTimer, recorders, srState, srResults,
                 restartPending, readers, startPending, micPending, stopPc,
                 stopPending, nextId, nFrags, nStarts, nStops, nSpeech, drained,
                 lastFlushTime,  stopAt>>
  /\ UNCHANGED <<uiVars, service>>

\* ---- startRecording -----------------------------------------------------------

\* startRecording is called: POST /recording/start is sent and awaited.
SvcStartRequest(maxStarts) ==
  /\ Idle
  /\ nStarts < maxStarts
  /\ nStarts' = nStarts + 1
  /\ startPending' = startPending + 1
  /\ flushCall' = NoCall
  /\ outcome' = Outcome("", "/recording/start")
  /\ UNCHANGED <<svcVars, now, timers, pollTimers, due, nextTimer, recorders, srState, srResults,
                 restartPending, readers, uploads, micPending, stopPc, stopPending,
                 nextId, nFrags, nStops, nSpeech, drained, lastFlushTime, 
                 stopAt>>
StartRequest(maxStarts) ==
  /\ SvcStartRequest(maxStarts)
  /\ UNCHANGED <<uiVars, service>>

\* The backend answered with success and a recording id: the session state is
\* initialised, transcription polling is started when the caller asked for it
\* and the backend has it enabled, and getUserMedia is awaited.
StartResponseOk(transcription) ==
  /\ Idle
  /\ startPending > 0
  /\ startPending' = startPending - 1
  /\ currentRecordingId' = nextId
  /\ nextId' = nextId + 1
  /\ audioChunks' = <<>>
  /\ audioQueue' = <<>>
  /\ accumulatedAudio' = <<>>
  /\ lastProcessTime' = now
  /\ lastFlushTime' = now
  /\ micPending' = micPending + 1
  /\ flushCall' = NoCall
  /\ outcome' = Quiet
  /\ uploads' = SelectSeq(uploads, LAMBDA u : u.status = "pending")
  /\ drained' = <<>>
  /\ stopAt' = -1
  /\ IF transcription
     THEN /\ transcriptionInterval' = nextTimer
          /\ pollTimers' = pollTimers \cup {nextTimer}
          /\ nextTimer' = nextTimer + 1
     ELSE UNCHANGED <<transcriptionInterval, pollTimers, nextTimer>>
  /\ UNCHANGED <<mediaRecorder, speechRecognition, isListening, processingInterval,
                 now, timers, due, recorders, srState, srResults,
                 restartPending, readers, stopPc, stopPending,
                 nFrags, nStarts, nStops, nSpeech>>
  /\ UNCHANGED <<uiVars, service>>

\* The request failed, or answered without success or without an id: the call
\* throws and nothing of the service has changed.
SvcStartResponseFail ==
  /\ Idle
  /\ startPending > 0
  /\ startPending' = startPending - 1
  /\ flushCall' = NoCall
  /\ outcome' = Outcome("Failed to start recording", "")
  /\ UNCHANGED <<svcVars, now, timers, pollTimers, due, nextTimer, recorders, srState, srResults,
                 restartPending, readers, uploads, micPending, stopPc, stopPending,
                 nextId, nFrags, nStarts, nStops, nSpeech, drained, lastFlushTime,
                  stopAt>>
StartResponseFail ==
  /\ SvcStartResponseFail
  /\ UNCHANGED <<uiVars, service>>

\* What setupSpeechRecognition meets: the API is there and start() succeeds
\* ("started"); the API is missing or its constructor throws ("absent"); the
\* object is constructed and start() throws ("failed").  In every case the
\* function catches and returns.
SrModes == {"started", "absent", "failed"}

\* getUserMedia resolved: speech recognition is set up, a MediaRecorder is
\* created and started with 250 ms timeslices, and the processing interval is
\* started.
MicGranted_NeedsDetector(sr) ==
  /\ Idle
  /\ micPending > 0
  /\ micPending' = micPending - 1
  /\ CASE sr = "started" -> /\ speechRecognition' = TRUE
                            /\ srState' = "starting"
                            /\ srResults' = <<>>
       [] sr = "failed" -> /\ speechRecognition' = TRUE
                           /\ srState' = "ended"
                           /\ srResults' = <<>>
       [] OTHER -> UNCHANGED <<speechRecognition, srState, srResults>>
  /\ recorders' = Append(recorders,
                         [state |-> "recording", tracks |-> TRUE, finalPending |-> FALSE])
  /\ mediaRecorder' = Len(recorders) + 1
  /\ IF sr = "started"
     THEN /\ processingInterval' = nextTimer
          /\ timers' = timers \cup {nextTimer}
          /\ nextTimer' = nextTimer + 1
     ELSE UNCHANGED <<processingInterval, timers, nextTimer>>
  /\ flushCall' = NoCall
  /\ outcome' = Quiet
  /\ UNCHANGED <<currentRecordingId, isListening, audioQueue, accumulatedAudio,
                 transcriptionInterval, pollTimers,
                 lastProcessTime, now, due, restartPending, readers, uploads,
                 startPending, stopPc, stopPending, nextId, nFrags, nStarts, nStops,
                 nSpeech, drained, lastFlushTime,  stopAt>>
  /\ UNCHANGED <<audioChunks, uiVars, service>>
MicGranted(sr) ==
  /\ Idle
  /\ micPending > 0
  /\ micPending' = micPending - 1
  /\ CASE sr = "started" -> /\ speechRecognition' = TRUE
                            /\ srState' = "starting"
                            /\ srResults' = <<>>
       [] sr = "failed" -> /\ speechRecognition' = TRUE
                           /\ srState' = "ended"
                           /\ srResults' = <<>>
       [] OTHER -> UNCHANGED <<speechRecognition, srState, srResults>>
  /\ recorders' = Append(recorders,
                         [state |-> "recording", tracks |-> TRUE, finalPending |-> FALSE])
  /\ mediaRecorder' = Len(recorders) + 1
  /\ processingInterval' = nextTimer
  /\ timers' = timers \cup {nextTimer}
  /\ nextTimer' = nextTimer + 1
  /\ flushCall' = NoCall
  /\ outcome' = Quiet
  /\ UNCHANGED <<currentRecordingId, isListening, audioQueue, accumulatedAudio,
                 transcriptionInterval, pollTimers,
                 lastProcessTime, now, due, restartPending, readers, uploads,
                 startPending, stopPc, stopPending, nextId, nFrags, nStarts, nStops,
                 nSpeech, drained, lastFlushTime,  stopAt>>
  /\ UNCHANGED <<audioChunks, uiVars, service>>

\* getUserMedia rejected: the call throws where it stands.
SvcMicDenied ==
  /\ Idle
  /\ micPending > 0
  /\ micPending' = micPending - 1
  /\ flushCall' = NoCall
  /\ outcome' = Outcome("NotAllowedError", "")
  /\ UNCHANGED <<svcVars, now, timers, pollTimers, due, nextTimer, recorders, srState, srResults,
                 restartPending, readers, uploads, startPending, stopPc, stopPending,
                 nextId, nFrags, nStarts, nStops, nSpeech, drained, lastFlushTime,
                  stopAt>>
MicDenied ==
  /\ SvcMicDenied
  /\ UNCHANGED <<uiVars, service>>

\* ---- stopRecording ------------------------------------------------------------

\* stopRecording is called.  Without a recorder or a recording id it throws.
\* Otherwise the processing interval is cleared and recognition is stopped.
SvcStopBegin(maxStops) ==
  /\ Idle
  /\ nStops < maxStops
  /\ nStops' = nStops + 1
  /\ flushCall' = NoCall
  /\ IF mediaRecorder = NULL \/ currentRecordingId = NULL
     THEN /\ outcome' = Outcome("No active recording", "")
          /\ UNCHANGED <<svcVars, timers, due, srState, stopPc, stopAt>>
     ELSE /\ outcome' = Quiet
          /\ timers' = ClearedTimers
          /\ due' = due \cap ClearedTimers
          /\ processingInterval' = NULL
          /\ isListening' = IF speechRecognition THEN FALSE ELSE isListening
          /\ srState' = IF speechRecognition /\ srState \in {"starting", "running"}
                        THEN "stopping" ELSE srState
          /\ stopAt' = nFrags
          /\ stopPc' = "flush"
          /\ UNCHANGED <<mediaRecorder, currentRecordingId, speechRecognition,
                         audioQueue, audioChunks, transcriptionInterval,
                         accumulatedAudio, lastProcessTime>>
  /\ UNCHANGED <<now, pollTimers, nextTimer, recorders, srResults, restartPending, readers, uploads,
                 startPending, micPending, stopPending, nextId, nFrags, nStarts,
                 nSpeech, drained, lastFlushTime>>
StopBegin(maxStops) ==
  /\ SvcStopBegin(maxStops)
  /\ UNCHANGED <<uiVars, service>>

\* "Send any remaining accumulated audio".
StopFlush_Never ==
  /\ stopPc = "flush"
  /\ stopPc' = "release"
  /\ flushCall' = NoCall
  /\ outcome' = Quiet
  /\ UNCHANGED <<svcVars, now, timers, pollTimers, due, nextTimer, recorders, srState, srResults,
                 restartPending, readers, uploads, startPending, micPending,
                 stopPending, nextId, nFrags, nStarts, nStops, nSpeech, drained,
                 lastFlushTime,  stopAt>>
  /\ UNCHANGED <<uiVars, service>>
StopFlush ==
  /\ stopPc = "flush"
  /\ stopPc' = "release"
  /\ outcome' = Quiet
  /\ IF Len(accumulatedAudio) > 0
     THEN FlushStep(accumulatedAudio, Str("Final chunk"))
     ELSE NoFlushStep
  /\ UNCHANGED <<svcVars, now, timers, pollTimers, due, nextTimer, recorders, srState, srResults,
                 restartPending, uploads, startPending, micPending, stopPending,
                 nextId, nFrags, nStarts, nStops, nSpeech, drained, stopAt>>
  /\ UNCHANGED <<uiVars, service>>

\* stopTranscriptionPolling, mediaRecorder.stop(), the tracks' stop(), then POST
\* /recording/stop is sent and awaited.  stop() on a recorder that is already
\* inactive either does nothing or throws InvalidStateError, depending on the
\* browser; when it throws, stopRecording rethrows from there.
SvcStopRelease(throws) ==
  /\ stopPc = "release"
  /\ stopPc' = "idle"
  /\ flushCall' = NoCall
  /\ pollTimers' = ClearedPolls
  /\ transcriptionInterval' = NULL
  /\ throws => recorders[mediaRecorder].state = "inactive"
  /\ IF throws
     THEN /\ outcome' = Outcome("InvalidStateError", "")
          /\ UNCHANGED <<recorders, stopPending>>
     ELSE /\ outcome' = Outcome("", "/recording/stop")
          /\ recorders' =
               [recorders EXCEPT ![mediaRecorder] =
                  [state |-> "inactive", tracks |-> FALSE,
                   finalPending |-> @.finalPending \/ @.state = "recording"]]
          /\ stopPending' = stopPending + 1
  /\ UNCHANGED <<mediaRecorder, currentRecordingId, speechRecognition, isListening,
                 audioQueue, processingInterval, accumulatedAudio, lastProcessTime,
                 now, timers, due, nextTimer, srState, srResults,
                 restartPending, readers, uploads, startPending, micPending,
                 nextId, nFrags, nStarts, nStops, nSpeech, drained, lastFlushTime,
                 stopAt>>
  /\ UNCHANGED audioChunks
StopRelease(throws) ==
  /\ SvcStopRelease(throws)
  /\ UNCHANGED <<uiVars, service>>

\* The stop request succeeded: "Clean up".
SvcStopResponseOk ==
  /\ Idle
  /\ stopPending > 0
  /\ stopPending' = stopPending - 1
  /\ mediaRecorder' = NULL
  /\ currentRecordingId' = NULL
  /\ audioQueue' = <<>>
  /\ accumulatedAudio' = <<>>
  /\ speechRecognition' = FALSE
  /\ flushCall' = NoCall
  /\ outcome' = Quiet
  /\ UNCHANGED <<isListening, processingInterval, transcriptionInterval, lastProcessTime,
                 now, timers, pollTimers, due, nextTimer, recorders, srState, srResults,
                 restartPending, readers, uploads, startPending, micPending, stopPc,
                 nextId, nFrags, nStarts, nStops, nSpeech, drained, lastFlushTime,
                  stopAt>>
  /\ UNCHANGED audioChunks
StopResponseOk ==
  /\ SvcStopResponseOk
  /\ UNCHANGED <<uiVars, service>>

\* The stop request failed: the call throws before the clean-up.
SvcStopResponseFail ==
  /\ Idle
  /\ stopPending > 0
  /\ stopPending' = stopPending - 1
  /\ flushCall' = NoCall
  /\ outcome' = Outcome("Failed to stop recording", "")
  /\ UNCHANGED <<svcVars, now, timers, pollTimers, due, nextTimer, recorders, srState, srResults,
                 restartPending, readers, uploads, startPending, micPending, stopPc,
                 nextId, nFrags, nStarts, nStops, nSpeech, drained, lastFlushTime,
                  stopAt>>
StopResponseFail ==
  /\ SvcStopResponseFail
  /\ UNCHANGED <<uiVars, service>>

\* ---- speech recognition --------------------------------------------------------

\* speechRecognition.onstart.
SrOnStart ==
  /\ Idle
  /\ srState = "starting"
  /\ srState' = "running"
  /\ isListening' = TRUE
  /\ flushCall' = NoCall
  /\ outcome' = Quiet
  /\ UNCHANGED <<mediaRecorder, currentRecordingId, speechRecognition, audioQueue,
                 processingInterval, transcriptionInterval, accumulatedAudio, lastProcessTime,
                 now, timers, pollTimers, due, nextTimer, recorders, srResults, restartPending,
                 readers, uploads, startPending, micPending, stopPc, stopPending,
                 nextId, nFrags, nStarts, nStops, nSpeech, drained, lastFlushTime,
                 stopAt>>
  /\ UNCHANGED <<audioChunks, uiVars, service>>

\* The recogniser's result list after one more result event: the hypothesis in
\* progress is revised or made final, or a new one is opened.
NextResults(final, t) ==
  IF srResults # <<>> /\ ~srResults[Len(srResults)].isFinal
  THEN [srResults EXCEPT ![Len(srResults)] = [isFinal |-> final, transcript |-> t]]
  ELSE Append(srResults, [isFinal |-> final, transcript |-> t])

\* onresult's loop: the transcripts of all final results of event.results.
RECURSIVE FinalTranscript(_)
FinalTranscript(results) ==
  IF results = <<>> THEN <<>>
  ELSE (IF Head(results).isFinal THEN Head(results).transcript ELSE <<>>)
       \o FinalTranscript(Tail(results))

\* speechRecognition.onresult.
SpeechResult(final, t, maxSpeech) ==
  /\ Idle
  /\ srState \in {"running", "stopping"}
  /\ nSpeech < maxSpeech
  /\ nSpeech' = nSpeech + 1
  /\ srResults' = NextResults(final, t)
  /\ outcome' = Quiet
  /\ LET finalTranscript == FinalTranscript(NextResults(final, t))
     IN IF Trim(finalTranscript) # <<>>
        THEN FlushStep(accumulatedAudio, finalTranscript)
        ELSE NoFlushStep
  /\ UNCHANGED <<svcVars, now, timers, pollTimers, due, nextTimer, recorders, srState,
                 restartPending, uploads, startPending, micPending, stopPc,
                 stopPending, nextId, nFrags, nStarts, nStops, drained, 
                 stopAt>>
  /\ UNCHANGED <<uiVars, service>>

\* speechRecognition.onend: a restart is scheduled while listening in a session.
SrOnEnd ==
  /\ Idle
  /\ srState \in {"starting", "running", "stopping"}
  /\ srState' = "ended"
  /\ restartPending' = (restartPending \/ (isListening /\ currentRecordingId # NULL))
  /\ flushCall' = NoCall
  /\ outcome' = Quiet
  /\ UNCHANGED <<svcVars, now, timers, pollTimers, due, nextTimer, recorders, srResults,
                 readers, uploads, startPending, micPending, stopPc, stopPending,
                 nextId, nFrags, nStarts, nStops, nSpeech, drained, lastFlushTime,
                  stopAt>>
  /\ UNCHANGED <<uiVars, service>>

\* The restart timeout of onend fires.
SrRestart ==
  /\ Idle
  /\ restartPending
  /\ restartPending' = FALSE
  /\ IF speechRecognition /\ isListening /\ srState = "ended"
     THEN /\ srState' = "starting"
          /\ srResults' = <<>>
     ELSE UNCHANGED <<srState, srResults>>
  /\ flushCall' = NoCall
  /\ outcome' = Quiet
  /\ UNCHANGED <<svcVars, now, timers, pollTimers, due, nextTimer, recorders,
                 readers, uploads, startPending, micPending, stopPc, stopPending,
                 nextId, nFrags, nStarts, nStops, nSpeech, drained, lastFlushTime,
                  stopAt>>
  /\ UNCHANGED <<uiVars, service>>

\* ---- transcription ---------------------------------------------------------------

\* getTranscription is called: without a recording id it throws, otherwise it
\* requests /transcription/<id>.  The answer changes nothing of the service.
GetTranscription_Unchecked ==
  /\ Idle
  /\ outcome' = Outcome("", "/transcription")
  /\ flushCall' = NoCall
  /\ UNCHANGED <<svcVars, envVars, nFrags, nStarts, nStops, nSpeech, drained,
                 lastFlushTime, stopAt>>
  /\ UNCHANGED <<uiVars, service>>
GetTranscription ==
  /\ Idle
  /\ outcome' = IF currentRecordingId = NULL
                THEN Outcome("No active recording", "")
                ELSE Outcome("", "/transcription")
  /\ flushCall' = NoCall
  /\ UNCHANGED <<svcVars, envVars, nFrags, nStarts, nStops, nSpeech, drained,
                 lastFlushTime, stopAt>>
  /\ UNCHANGED <<uiVars, service>>

\* The poll interval's callback, every second: getTranscription, its error
\* caught and logged.
PollTick(p) ==
  /\ Idle
  /\ p \in pollTimers
  /\ now > 0 /\ now % PollMs = 0
  /\ outcome' = IF currentRecordingId = NULL THEN Quiet
                ELSE Outcome("", "/transcription")
  /\ flushCall' = NoCall
  /\ UNCHANGED <<svcVars, envVars, nFrags, nStarts, nStops, nSpeech, drained,
                 lastFlushTime, stopAt>>
  /\ UNCHANGED <<uiVars, service>>

\* ---- the per-fragment service (src/src/services/backend.ts) ------------------

\* What the per-fragment BackendService does not have: recogniser, queue,
\* buffer and timers.
queueOnly == <<speechRecognition, isListening, audioQueue, processingInterval,
               transcriptionInterval, accumulatedAudio, lastProcessTime, now,
               timers, pollTimers, due, nextTimer, srState, srResults,
               restartPending, stopPc, nSpeech, drained, flushCall, lastFlushTime>>

\* startRecording up to the awaited /recording/start.
PfStartRequest(maxStarts) ==
  /\ nStarts < maxStarts
  /\ nStarts' = nStarts + 1
  /\ startPending' = startPending + 1
  /\ outcome' = Outcome("", "/recording/start")
  /\ UNCHANGED <<mediaRecorder, currentRecordingId, audioChunks, recorders, readers,
                 uploads, micPending, stopPending, nextId, nFrags, nStops, stopAt,
                 queueOnly, uiVars, service>>

\* The start request succeeded: the id is kept, audioChunks is reset and the
\* microphone is requested.
PfStartResponseOk ==
  /\ startPending > 0
  /\ startPending' = startPending - 1
  /\ currentRecordingId' = nextId
  /\ nextId' = nextId + 1
  /\ audioChunks' = <<>>
  /\ micPending' = micPending + 1
  /\ stopAt' = -1
  /\ outcome' = Quiet
  /\ UNCHANGED <<mediaRecorder, recorders, readers, uploads, stopPending, nFrags,
                 nStarts, nStops, queueOnly, uiVars, service>>

\* getUserMedia resolved: the recorder is created and started.
PfMicGranted ==
  /\ micPending > 0
  /\ micPending' = micPending - 1
  /\ recorders' = Append(recorders,
                         [state |-> "recording", tracks |-> TRUE, finalPending |-> FALSE])
  /\ mediaRecorder' = Len(recorders) + 1
  /\ outcome' = Quiet
  /\ UNCHANGED <<currentRecordingId, audioChunks, readers, uploads, startPending,
                 stopPending, nextId, nFrags, nStarts, nStops, stopAt, queueOnly,
                 uiVars, service>>

\* mediaRecorder.ondataavailable: a fragment with data is kept and handed to a
\* FileReader of its own.
PfOndataavailable_NoSizeCheck(size) ==
  /\ audioChunks' = Append(audioChunks, IF size > 0 THEN nFrags + 1 ELSE 0)
  /\ readers' = Append(readers, [blob |-> <<IF size > 0 THEN nFrags + 1 ELSE 0>>])
  /\ nFrags' = IF size > 0 THEN nFrags + 1 ELSE nFrags
PfOndataavailable(size) ==
  IF size > 0
  THEN /\ audioChunks' = Append(audioChunks, nFrags + 1)
       /\ readers' = Append(readers, [blob |-> <<nFrags + 1>>])
       /\ nFrags' = nFrags + 1
  ELSE UNCHANGED <<audioChunks, readers, nFrags>>

\* A fragment of a timeslice, from a recorder that is recording.
PfDataAvailable(r, size, maxFrags) ==
  /\ r \in 1..Len(recorders)
  /\ recorders[r].state = "recording"
  /\ size > 0 => nFrags < maxFrags
  /\ PfOndataavailable(size)
  /\ outcome' = Quiet
  /\ UNCHANGED <<mediaRecorder, currentRecordingId, recorders, uploads, startPending,
                 micPending, stopPending, nextId, nStarts, nStops, stopAt, queueOnly,
                 uiVars, service>>

\* The last fragment of a recorder, delivered after stop() has returned.
PfFinalData(r, size, maxFrags) ==
  /\ r \in 1..Len(recorders)
  /\ recorders[r].finalPending
  /\ size > 0 => nFrags < maxFrags
  /\ PfOndataavailable(size)
  /\ recorders' = [recorders EXCEPT ![r].finalPending = FALSE]
  /\ outcome' = Quiet
  /\ UNCHANGED <<mediaRecorder, currentRecordingId, uploads, startPending,
                 micPending, stopPending, nextId, nStarts, nStops, stopAt, queueOnly,
                 uiVars, service>>

\* reader.onloadend: the fragment is posted with the recording id of now.
PfReaderLoadEnd(i) ==
  /\ i \in 1..Len(readers)
  /\ uploads' = Append(uploads,
                        [recording_id |-> currentRecordingId,
                         audio_data |-> readers[i].blob,
                         status |-> "pending"])
  /\ readers' = RemoveAt(readers, i)
  /\ outcome' = Outcome("", "/recording/chunk")
  /\ UNCHANGED <<mediaRecorder, currentRecordingId, audioChunks, recorders,
                 startPending, micPending, stopPending, nextId, nFrags, nStarts,
                 nStops, stopAt, queueOnly, uiVars, service>>

\* The chunk request is answered; a failure is logged.
PfChunkAnswered(i, ok) ==
  /\ i \in 1..Len(uploads)
  /\ uploads[i].status = "pending"
  /\ uploads' = [uploads EXCEPT ![i].status = IF ok THEN "ok" ELSE "failed"]
  /\ outcome' = Quiet
  /\ UNCHANGED <<mediaRecorder, currentRecordingId, audioChunks, recorders, readers,
                 startPending, micPending, stopPending, nextId, nFrags, nStarts,
                 nStops, stopAt, queueOnly, uiVars, service>>

\* stopRecording up to the awaited /recording/stop: the precondition, then
\* mediaRecorder.stop() and the tracks' stop().
PfStopRecording(maxStops) ==
  /\ nStops < maxStops
  /\ nStops' = nStops + 1
  /\ IF mediaRecorder = NULL \/ currentRecordingId = NULL
     THEN /\ outcome' = Outcome("No active recording", "")
          /\ UNCHANGED <<recorders, stopPending, stopAt>>
     ELSE /\ outcome' = Outcome("", "/recording/stop")
          /\ recorders' =
               [recorders EXCEPT ![mediaRecorder] =
                  [state |-> "inactive", tracks |-> FALSE,
                   finalPending |-> @.finalPending \/ @.state = "recording"]]
          /\ stopPending' = stopPending + 1
          /\ stopAt' = nFrags
  /\ UNCHANGED <<mediaRecorder, currentRecordingId, audioChunks, readers, uploads,
                 startPending, micPending, nextId, nFrags, nStarts, queueOnly,
                 uiVars, service>>

\* The stop request succeeded: "Clean up".
PfStopResponseOk ==
  /\ stopPending > 0
  /\ stopPending' = stopPending - 1
  /\ mediaRecorder' = NULL
  /\ currentRecordingId' = NULL
  /\ outcome' = Quiet
  /\ UNCHANGED <<audioChunks, recorders, readers, uploads, startPending, micPending,
                 nextId, nFrags, nStarts, nStops, stopAt, queueOnly, uiVars, service>>

\* ---- the chat interface (MainInterface) ---------------------------------------

\* handleMicClick.  While recording is shown it clears isRecording and calls
\* stopRecording, whose rejection only adds a chat message; otherwise it sets
\* isRecording and calls startRecording.  (Clicks are not taken while
\* handleEndCall is awaiting its stopRecording.)
MicClick(maxStarts, maxStops) ==
  /\ ~endPending
  /\ IF isRecording
     THEN /\ SvcStopBegin(maxStops)
          /\ isRecording' = FALSE
     ELSE /\ SvcStartRequest(maxStarts)
          /\ isRecording' = TRUE
  /\ UNCHANGED <<endPending, backendStatus, health, service>>

\* The catch of handleMicClick around startRecording.
MicStartResponseFail ==
  /\ SvcStartResponseFail
  /\ isRecording' = FALSE
  /\ UNCHANGED <<endPending, backendStatus, health, service>>

MicStartDenied ==
  /\ SvcMicDenied
  /\ isRecording' = FALSE
  /\ UNCHANGED <<endPending, backendStatus, health, service>>

\* handleEndCall while recording is shown: stopRecording is called and awaited,
\* and isRecording is cleared when it has settled, here at once when it throws
\* on its precondition.  (It is taken when no other stopRecording is pending.)
EndCall(maxStops) ==
  /\ isRecording
  /\ ~endPending
  /\ stopPending = 0
  /\ SvcStopBegin(maxStops)
  /\ IF mediaRecorder = NULL \/ currentRecordingId = NULL
     THEN isRecording' = FALSE /\ endPending' = FALSE
     ELSE isRecording' = isRecording /\ endPending' = TRUE
  /\ UNCHANGED <<backendStatus, health, service>>

\* What handleEndCall does when its stopRecording settles.
EndCallSettles(settles) ==
  IF endPending /\ settles
  THEN isRecording' = FALSE /\ endPending' = FALSE
  ELSE UNCHANGED <<isRecording, endPending>>

\* The steps of stopRecording that settle the call, seen from the interface.
UiStopRelease(throws) ==
  /\ SvcStopRelease(throws)
  /\ EndCallSettles(throws)
  /\ UNCHANGED <<backendStatus, health, service>>

UiStopResponseOk ==
  /\ SvcStopResponseOk
  /\ EndCallSettles(TRUE)
  /\ UNCHANGED <<backendStatus, health, service>>

UiStopResponseFail ==
  /\ SvcStopResponseFail
  /\ EndCallSettles(TRUE)
  /\ UNCHANGED <<backendStatus, health, service>>

\* The mount-time effect checkBackend awaits healthCheck.  The /health request
\* succeeds: healthCheck resolves and the status becomes 'connected'.
HealthOk ==
  /\ health = "pending"
  /\ health' = "ok"
  /\ backendStatus' = "connected"
  /\ UNCHANGED <<svcVars, envVars, obsVars, isRecording, endPending, service>>

\* The /health request fails: healthCheck catches the error and returns a
\* promise that a 500 ms timeout resolves.
HealthFail ==
  /\ health = "pending"
  /\ health' = "failed"
  /\ UNCHANGED <<svcVars, envVars, obsVars, isRecording, endPending, backendStatus,
                 service>>

\* That timeout resolves the promise with a made-up answer, and checkBackend
\* sets the status as after a real one.
HealthFallback ==
  /\ health = "failed"
  /\ health' = "simulated"
  /\ backendStatus' = "connected"
  /\ UNCHANGED <<svcVars, envVars, obsVars, isRecording, endPending, service>>

\* ---- the specification ---------------------------------------------------------

\* The caller awaits each call of startRecording or stopRecording before it
\* makes the next.
CallsSettled == startPending = 0 /\ micPending = 0 /\ stopPending = 0

\* Recording sessions from startRecording to the answer to /recording/stop, in
\* which the backend answers with success and the microphone is granted.
Next ==
  \/ Advance(MaxTicks)
  \/ \E t \in due : Tick(t)
  \/ \E r \in 1..Len(recorders), size \in {0, 1} : DataAvailable(r, size, MaxFrags)
  \/ \E r \in 1..Len(recorders), size \in {0, 1} : FinalData(r, size, MaxFrags)
  \/ \E i \in 1..Len(readers) : ReaderLoadEnd(i)
  \/ \E i \in 1..Len(uploads) : ChunkOk(i, TRUE)
  \/ CallsSettled /\ StartRequest(MaxStarts)
  \/ StartResponseOk(FALSE)
  \/ \E sr \in {"started", "absent"} : MicGranted(sr)
  \/ CallsSettled /\ StopBegin(MaxStops)
  \/ StopFlush
  \/ \E th \in BOOLEAN : StopRelease(th)
  \/ StopResponseOk
  \/ SrOnStart
  \/ SpeechResult(FALSE, Interim, MaxSpeech)
  \/ \E t \in Transcripts : SpeechResult(TRUE, t, MaxSpeech)

Spec == Init /\ [][Next]_vars

\* Brief sessions: the same steps with at most one of each event, the caller
\* starting a recording only when the service holds none (the toggle of the
\* microphone button).  Answered requests are not kept in uploads.
NextBrief ==
  \/ Advance(BriefTicks)
  \/ \E t \in due : Tick(t)
  \/ \E r \in 1..Len(recorders), size \in {0, 1} : DataAvailable(r, size, BriefFrags)
  \/ \E r \in 1..Len(recorders), size \in {0, 1} : FinalData(r, size, BriefFrags)
  \/ \E i \in 1..Len(readers) : ReaderLoadEnd(i)
  \/ \E i \in 1..Len(uploads) : ChunkOk(i, FALSE)
  \/ CallsSettled /\ currentRecordingId = NULL /\ StartRequest(BriefStarts)
  \/ StartResponseOk(FALSE)
  \/ \E sr \in {"started", "absent"} : MicGranted(sr)
  \/ CallsSettled /\ StopBegin(BriefStops)
  \/ StopFlush
  \/ \E th \in BOOLEAN : StopRelease(th)
  \/ StopResponseOk
  \/ SrOnStart
  \/ SpeechResult(FALSE, Interim, BriefSpeech)
  \/ \E t \in Transcripts : SpeechResult(TRUE, t, BriefSpeech)

SpecBrief == Init /\ [][NextBrief]_vars

\* Brief sessions in which a request may fail, the microphone may be denied and
\* the recogniser may end.
NextFaulty ==
  \/ NextBrief
  \/ \E i \in 1..Len(uploads) : ChunkFail(i, FALSE)
  \/ StartResponseFail
  \/ MicDenied
  \/ StopResponseFail
  \/ SrOnEnd
  \/ SrRestart

SpecFaulty == Init /\ [][NextFaulty]_vars

\* One session that is not stopped, in which chunk requests may fail.
NextUploadFail ==
  \/ Advance(FailTicks)
  \/ \E t \in due : Tick(t)
  \/ \E r \in 1..Len(recorders) : DataAvailable(r, 1, FailFrags)
  \/ \E i \in 1..Len(readers) : ReaderLoadEnd(i)
  \/ \E i \in 1..Len(uploads) : ChunkOk(i, TRUE)
  \/ \E i \in 1..Len(uploads) : ChunkFail(i, TRUE)
  \/ CallsSettled /\ currentRecordingId = NULL /\ StartRequest(MaxStarts)
  \/ StartResponseOk(FALSE)
  \/ \E sr \in {"started", "absent"} : MicGranted(sr)
  \/ SrOnStart
  \/ SpeechResult(TRUE, Str("hello"), FailSpeech)

SpecUploadFail == Init /\ [][NextUploadFail]_vars

\* A session that lasts longer than the phrase timeout: few fragments, a final
\* recognition result, no stop.
NextLong ==
  \/ Advance(LongTicks)
  \/ \E t \in due : Tick(t)
  \/ \E r \in 1..Len(recorders) : DataAvailable(r, 1, LongFrags)
  \/ \E i \in 1..Len(readers) : ReaderLoadEnd(i)
  \/ \E i \in 1..Len(uploads) : ChunkOk(i, TRUE)
  \/ \E i \in 1..Len(uploads) : ChunkFail(i, TRUE)
  \/ StartRequest(MaxStarts)
  \/ StartResponseOk(FALSE)
  \/ \E sr \in {"started", "absent"} : MicGranted(sr)
  \/ SrOnStart
  \/ SpeechResult(TRUE, Str("hello"), LongSpeech)

SpecLong == Init /\ [][NextLong]_vars

\* The recorder's timeslice equals the interval period: in the steady state a
\* fragment arrives in every period, before the interval callback runs.
StreamData(r) ==
  /\ due # {}
  /\ audioQueue = <<>>
  /\ DataAvailable(r, 1, StreamTicks)
StreamTick(t) ==
  /\ audioQueue # <<>>
  /\ Tick(t)

\* A session in which a fragment arrives on every tick and recognition yields
\* interim results only.
NextStream ==
  \/ Advance(StreamTicks)
  \/ \E t \in due : StreamTick(t)
  \/ \E r \in 1..Len(recorders) : StreamData(r)
  \/ \E r \in 1..Len(recorders), size \in {0, 1} : FinalData(r, size, StreamTicks)
  \/ \E i \in 1..Len(readers) : ReaderLoadEnd(i)
  \/ \E i \in 1..Len(uploads) : ChunkOk(i, TRUE)
  \/ \E i \in 1..Len(uploads) : ChunkFail(i, TRUE)
  \/ StartRequest(MaxStarts)
  \/ StartResponseOk(FALSE)
  \/ \E sr \in {"started", "absent"} : MicGranted(sr)
  \/ SrOnStart
  \/ SpeechResult(FALSE, Interim, MaxSpeech)
  \/ StopBegin(MaxStops)
  \/ StopFlush
  \/ StopRelease(FALSE)
  \/ StopResponseOk

SpecStream == Init /\ [][NextStream]_vars

\* Sessions with transcription polling in which the microphone may be denied,
\* the recorder may stop on an error of its own and the stop request may fail.
NextShut ==
  \/ Advance(ShutTicks)
  \/ \E t \in due : Tick(t)
  \/ \E p \in pollTimers : PollTick(p)
  \/ \E r \in 1..Len(recorders), size \in {0, 1} : DataAvailable(r, size, ShutFrags)
  \/ \E r \in 1..Len(recorders), size \in {0, 1} : FinalData(r, size, ShutFrags)
  \/ \E r \in 1..Len(recorders) : RecorderError(r)
  \/ \E i \in 1..Len(readers) : ReaderLoadEnd(i)
  \/ \E i \in 1..Len(uploads) : ChunkOk(i, FALSE)
  \/ CallsSettled /\ currentRecordingId = NULL /\ StartRequest(ShutStarts)
  \/ StartResponseOk(TRUE)
  \/ MicGranted("absent")
  \/ MicDenied
  \/ CallsSettled /\ StopBegin(ShutStops)
  \/ StopFlush
  \/ \E th \in BOOLEAN : StopRelease(th)
  \/ StopResponseOk
  \/ StopResponseFail

SpecShut == Init /\ [][NextShut]_vars

\* One session that is not stopped and runs into the phrase timeout, in which
\* the recogniser may be missing, may fail to start and may end at any time.
NextMute ==
  \/ Advance(MuteTicks)
  \/ \E t \in due : Tick(t)
  \/ \E r \in 1..Len(recorders) : DataAvailable(r, 1, MuteFrags)
  \/ \E i \in 1..Len(readers) : ReaderLoadEnd(i)
  \/ \E i \in 1..Len(uploads) : ChunkOk(i, FALSE)
  \/ CallsSettled /\ currentRecordingId = NULL /\ StartRequest(BriefStarts)
  \/ StartResponseOk(FALSE)
  \/ \E sr \in SrModes : MicGranted(sr)
  \/ SrOnStart
  \/ SrOnEnd
  \/ SrRestart

SpecMute == Init /\ [][NextMute]_vars

\* Brief sessions with transcription polling around which stopRecording and
\* getTranscription are called at any time, also after a denied microphone.
NextCalls ==
  \/ Advance(BriefTicks)
  \/ \E t \in due : Tick(t)
  \/ \E r \in 1..Len(recorders), size \in {0, 1} : DataAvailable(r, size, BriefFrags)
  \/ \E r \in 1..Len(recorders), size \in {0, 1} : FinalData(r, size, BriefFrags)
  \/ \E i \in 1..Len(readers) : ReaderLoadEnd(i)
  \/ \E i \in 1..Len(uploads) : ChunkOk(i, FALSE)
  \/ CallsSettled /\ currentRecordingId = NULL /\ StartRequest(BriefStarts)
  \/ StartResponseOk(TRUE)
  \/ MicGranted("absent")
  \/ MicDenied
  \/ StopBegin(BriefStops)
  \/ StopFlush
  \/ \E th \in BOOLEAN : StopRelease(th)
  \/ StopResponseOk
  \/ GetTranscription

SpecCalls == Init /\ [][NextCalls]_vars

\* The interface on top of the service: the health check at mount, clicks on
\* the mic button and on end call at any time, requests that may fail.
NextInterface ==
  \/ HealthOk
  \/ HealthFail
  \/ HealthFallback
  \/ MicClick(UiStarts, UiStops)
  \/ EndCall(UiStops)
  \/ StartResponseOk(TRUE)
  \/ MicStartResponseFail
  \/ MicGranted("absent")
  \/ MicStartDenied
  \/ StopFlush
  \/ \E th \in BOOLEAN : UiStopRelease(th)
  \/ UiStopResponseOk
  \/ UiStopResponseFail

SpecInterface == Init /\ [][NextInterface]_vars

\* One session without recogniser that is not stopped and stays idle beyond the
\* phrase timeout, with chunk requests that succeed or fail.
NextIdle ==
  \/ Advance(IdleTicks)
  \/ \E t \in due : Tick(t)
  \/ \E r \in 1..Len(recorders) : DataAvailable(r, 1, IdleFrags)
  \/ \E i \in 1..Len(readers) : ReaderLoadEnd(i)
  \/ \E i \in 1..Len(uploads) : ChunkOk(i, TRUE)
  \/ \E i \in 1..Len(uploads) : ChunkFail(i, TRUE)
  \/ CallsSettled /\ currentRecordingId = NULL /\ StartRequest(MaxStarts)
  \/ StartResponseOk(FALSE)
  \/ MicGranted("absent")

SpecIdle == Init /\ [][NextIdle]_vars

\* A session of one of the two services, chosen when the page is loaded, in
\* which the backend answers with success and the microphone is granted.
InitPair == Fresh /\ service \in Services

Queue == service = "queue"
Fragment == service = "fragment"

NextPair ==
  \/ Queue /\ Advance(PairTicks)
  \/ Queue /\ \E t \in due : Tick(t)
  \/ Queue /\ \E r \in 1..Len(recorders), size \in {0, 1} : DataAvailable(r, size, PairFrags)
  \/ Queue /\ \E r \in 1..Len(recorders), size \in {0, 1} : FinalData(r, size, PairFrags)
  \/ Queue /\ \E i \in 1..Len(readers) : ReaderLoadEnd(i)
  \/ Queue /\ \E i \in 1..Len(uploads) : ChunkOk(i, FALSE)
  \/ Queue /\ CallsSettled /\ currentRecordingId = NULL /\ StartRequest(PairStarts)
  \/ Queue /\ StartResponseOk(FALSE)
  \/ Queue /\ MicGranted("absent")
  \/ Queue /\ CallsSettled /\ StopBegin(PairStops)
  \/ Queue /\ StopFlush
  \/ Queue /\ StopRelease(FALSE)
  \/ Queue /\ StopResponseOk
  \/ Fragment /\ CallsSettled /\ currentRecordingId = NULL /\ PfStartRequest(PairStarts)
  \/ Fragment /\ PfStartResponseOk
  \/ Fragment /\ PfMicGranted
  \/ Fragment /\ \E r \in 1..Len(recorders), size \in {0, 1} : PfDataAvailable(r, size, PairFrags)
  \/ Fragment /\ \E r \in 1..Len(recorders), size \in {0, 1} : PfFinalData(r, size, PairFrags)
  \/ Fragment /\ \E i \in 1..Len(readers) : PfReaderLoadEnd(i)
  \/ Fragment /\ \E i \in 1..Len(uploads), ok \in BOOLEAN : PfChunkAnswered(i, ok)
  \/ Fragment /\ CallsSettled /\ PfStopRecording(PairStops)
  \/ Fragment /\ PfStopResponseOk

SpecPair == InitPair /\ [][NextPair]_vars

\* ---- properties -------------------------------------------------------------

Last(q) == q[Len(q)]
\* Every payload a flush has taken is in a FileReader or in a request.
Payloads ==
  [i \in 1..Len(readers) |-> readers[i].blob]
  \o [i \in 1..Len(uploads) |-> uploads[i].audio_data]
Triggers ==
  {readers[i].trigger : i \in 1..Len(readers)}
  \cup {uploads[i].detected_speech : i \in 1..Len(uploads)}
Flushed == UNION {Range(Payloads[i]) : i \in 1..Len(Payloads)}
Uploaded == UNION {Range(uploads[i].audio_data) : i \in 1..Len(uploads)}
\* This step's call of sendAccumulatedAudio took a payload.
Took == Len(readers') = Len(readers) + 1
\* Payloads that are being encoded or whose request is unanswered.
InFlight ==
  {readers[i].blob : i \in 1..Len(readers)}
  \cup {uploads[i].audio_data : i \in {j \in 1..Len(uploads) : uploads[j].status = "pending"}}
\* The session was stopped, the backend has answered, and nothing is pending.
SessionOver ==
  /\ stopAt >= 0
  /\ stopPc = "idle"
  /\ stopPending = 0
  /\ currentRecordingId = NULL
  /\ readers = <<>>
  /\ \A r \in 1..Len(recorders) : ~recorders[r].finalPending
  /\ \A i \in 1..Len(uploads) : uploads[i].status = "ok"

\* C1: the payloads of the flushes partition the drained fragments: each is a
\* run of consecutive drained fragments in arrival order, no fragment is in two
\* payloads, and a drained fragment that has left the buffer is in a payload.
C1_PayloadsPartitionDrained ==
  /\ \A i \in 1..Len(Payloads) :
       \E a \in 1..Len(drained) : \E b \in a..Len(drained) :
          Payloads[i] = SubSeq(drained, a, b)
  /\ \A i, j \in 1..Len(Payloads) :
       i # j => Range(Payloads[i]) \cap Range(Payloads[j]) = {}
  /\ Range(drained) \ Range(accumulatedAudio) \subseteq Flushed

\* C2: once the session is over and every upload has succeeded, every fragment
\* the recorder delivered is in the payload of some chunk upload.
C2_EveryFragmentUploaded == SessionOver => (1..nFrags) \subseteq Uploaded

\* C3: in a session without final recognition results in which every tick has
\* drained a fragment, once such ticks have filled more than one window of
\* phraseTimeout (13 ticks, one more than the 12 of the example) a flush with
\* the reason "phrase_timeout" has been triggered.
C3_FlushWithinTimeoutWindow ==
  (stopAt < 0 /\ Len(drained) * TickMs > PhraseTimeout)
  => Str("phrase_timeout") \in Triggers

\* C4: the tick compares the time since the last flush (or the start) with
\* phraseTimeout, and flushes exactly when that time exceeds it and the buffer
\* is not empty after the drain: "idle_timeout" when the tick drained nothing,
\* "phrase_timeout" otherwise.
C4_TickFlushesOnTimeSinceLastFlush ==
  [][(\E t \in due : due' = due \ {t} /\ nStops' = nStops)
     => IF now - lastFlushTime > PhraseTimeout /\ accumulatedAudio' # <<>>
        THEN flushCall' = (IF audioQueue = <<>> THEN Str("idle_timeout")
                                               ELSE Str("phrase_timeout"))
        ELSE flushCall' = NoCall]_vars

\* C5: a final recognition result (with a transcript that is not blank) that
\* arrives while the buffer holds fragments in a session triggers one flush
\* whose reason is "speech_detected" and whose payload is the buffer.
C5_SpeechFlushReason ==
  [][(/\ nSpeech' = nSpeech + 1
      /\ Last(srResults').isFinal
      /\ Trim(Last(srResults').transcript) # <<>>
      /\ accumulatedAudio # <<>>
      /\ currentRecordingId # NULL)
     => (/\ Took
         /\ Last(readers').trigger = Str("speech_detected")
         /\ Last(readers').blob = accumulatedAudio)]_vars

\* C6: stop right after start (no speech event, no timeout) with at least one
\* fragment delivered before the call: exactly one chunk upload, which holds
\* that fragment and has the reason "final".
C6_StopAfterStartUploadsOnce ==
  (/\ stopAt >= 1
   /\ nSpeech = 0
   /\ stopPc = "idle"
   /\ stopPending = 0
   /\ readers = <<>>)
  => (/\ Len(uploads) = 1
      /\ 1 \in Range(uploads[1].audio_data)
      /\ uploads[1].detected_speech = Str("final"))

C8_ClearedWithFlush ==
  [][/\ Took => accumulatedAudio' = <<>>
     /\ (/\ accumulatedAudio # <<>>
         /\ accumulatedAudio' = <<>>
         /\ currentRecordingId' = currentRecordingId
         /\ currentRecordingId # NULL) => Took]_vars

\* C9: a flush called while an earlier payload is still being encoded or
\* uploaded takes none of that payload's fragments, and no fragment leaves the
\* buffer of a session without having been taken by a flush.
C9_OverlapNeitherDupNorDrop ==
  [][/\ Took => \A p \in InFlight : Range(p) \cap Range(Last(readers').blob) = {}
     /\ (currentRecordingId' = currentRecordingId /\ currentRecordingId # NULL)
          => (Range(accumulatedAudio) \ Range(accumulatedAudio')) \subseteq Flushed']_vars

\* C10: a call of sendAccumulatedAudio on an empty buffer or without a
\* recording id starts no encoding and no request and leaves the queue, the
\* buffer, lastProcessTime and the recording id as they were.  (The tick that
\* calls it with "phrase_timeout" has itself drained the queue and set
\* lastProcessTime.)
C10_EmptyFlushIsNoOp ==
  [][(flushCall' # NoCall /\ (accumulatedAudio' = <<>> \/ currentRecordingId' = NULL))
     => (/\ readers' = readers
         /\ uploads' = uploads
         /\ currentRecordingId' = currentRecordingId
         /\ flushCall' # Str("phrase_timeout")
              => UNCHANGED <<audioQueue, accumulatedAudio, lastProcessTime>>)]_vars

\* C10, reached: a final recognition result has called the flush on an empty
\* buffer in a session, and no encoding and no request exists.
C10_Witness ==
  /\ flushCall # NoCall
  /\ accumulatedAudio = <<>>
  /\ currentRecordingId # NULL
  /\ nSpeech = 1
  /\ Last(srResults).isFinal
  /\ readers = <<>>
  /\ uploads = <<>>

\* A chunk request is answered with a failure in this step.
UploadFails(i) ==
  /\ i \in 1..Len(uploads)
  /\ uploads[i].status = "pending"
  /\ Len(uploads') = Len(uploads)
  /\ uploads'[i].status = "failed"

\* C11: a failed chunk upload throws nothing to any caller and touches nothing
\* of the service, of its intervals, of the recorders or of the recogniser: the
\* processing interval it had is still live, and ticks, recorder events and
\* speech results go on as without the failure.
C11_UploadFailureLeavesSessionRunning ==
  [][(\E i \in 1..Len(uploads) : UploadFails(i))
     => (/\ UNCHANGED <<svcVars, timers, pollTimers, due, recorders, srState,
                        srResults, restartPending, readers>>
         /\ outcome'.error = ""
         /\ flushCall' = NoCall)]_vars

\* C11, reached: after a failed upload of fragment 1 the interval is live, a
\* later tick has drained fragment 2 and a later speech flush has taken both.
C11_Witness ==
  /\ \E i \in 1..Len(uploads) :
       uploads[i].status = "failed" /\ uploads[i].audio_data = <<1>>
  /\ processingInterval \in timers
  /\ accumulatedAudio = <<1, 2>>
  /\ \E j \in 1..Len(readers) : readers[j].blob = <<1, 2>>

\* The fragments of the payloads that are being encoded, are in an unanswered
\* request or were uploaded with success.
SentElsewhere ==
  UNION ({Range(readers[j].blob) : j \in 1..Len(readers)}
         \cup {Range(uploads[j].audio_data) :
                 j \in {k \in 1..Len(uploads) : uploads[k].status # "failed"}})

\* C12: a failed chunk upload starts no request and no encoding of its own, and
\* every fragment of its payload is still in the buffer of its session, where
\* the next flush takes it together with the fragments drained since (or it is
\* in another payload that did not fail).
C12_FailedPayloadStaysForNextFlush ==
  [][\A i \in 1..Len(uploads) :
       (UploadFails(i) /\ uploads[i].recording_id = currentRecordingId)
       => (/\ readers' = readers
           /\ outcome'.request = ""
           /\ Range(uploads[i].audio_data)
                \subseteq (Range(accumulatedAudio') \cup SentElsewhere'))]_vars


\* C13: in a pass through stopRecording the recorder and its tracks are stopped
\* after the processing timer is cancelled and before the recogniser is stopped
\* and before the final flush: when the recogniser has been stopped, and when
\* the final flush is called, the recorder is inactive and its tracks are off.
C13_CaptureStoppedBeforeDetectorAndFlush ==
  [][/\ (stopPc = "idle" /\ stopPc' = "flush" /\ srState' = "stopping")
          => (/\ processingInterval' = NULL
              /\ recorders'[mediaRecorder].state = "inactive"
              /\ ~recorders'[mediaRecorder].tracks)
     /\ flushCall' = Str("Final chunk")
          => (/\ recorders[mediaRecorder].state = "inactive"
              /\ ~recorders[mediaRecorder].tracks)]_vars


\* C14: a pass through stopRecording that got beyond its precondition ends with
\* every shutdown step done, whichever step has thrown: both timers are
\* cancelled, the recorder is inactive, its tracks are off and the recogniser
\* is no longer listening.
C14_EveryShutdownStepAttempted ==
  [][(stopPc = "release" /\ stopPc' = "idle")
     => (/\ processingInterval' = NULL
         /\ processingInterval \notin timers'
         /\ transcriptionInterval' = NULL
         /\ transcriptionInterval \notin pollTimers'
         /\ recorders'[mediaRecorder].state = "inactive"
         /\ ~recorders'[mediaRecorder].tracks
         /\ srState' \notin {"starting", "running"})]_vars

\* C18: the step in which getUserMedia is rejected leaves the service without
\* a recording id, without a processing or a polling timer and without a
\* recorder.
C18_DeniedMicrophoneLeavesNoSession ==
  [][outcome'.error = "NotAllowedError"
     => (/\ currentRecordingId' = NULL
         /\ mediaRecorder' = NULL
         /\ processingInterval' = NULL
         /\ transcriptionInterval' = NULL
         /\ pollTimers' = {})]_vars

\* C20: the step in which the answer to /recording/stop arrives, with success
\* or with failure, leaves the service without recording id, recorder, queued
\* or buffered fragments and timers, and a stopRecording called after a pass
\* that got beyond the precondition fails with "No active recording".
C20_StoppedSessionIsDestroyed ==
  [][/\ stopPending' < stopPending
          => (/\ currentRecordingId' = NULL
              /\ mediaRecorder' = NULL
              /\ audioQueue' = <<>>
              /\ accumulatedAudio' = <<>>
              /\ processingInterval' = NULL
              /\ transcriptionInterval' = NULL)
     /\ (nStops' > nStops /\ stopAt >= 0)
          => outcome'.error = "No active recording"]_vars


\* C15: a recognition result event whose new result is interim calls no flush,
\* whatever final results the cumulative list of the event still holds.
C15_InterimEventNeverFlushes ==
  [][(nSpeech' = nSpeech + 1 /\ ~Last(srResults').isFinal)
     => flushCall' = NoCall]_vars


\* C16: when the recogniser ends while a recording id is held and stopRecording
\* has not been called, a restart is scheduled, whether or not onstart had
\* fired; and once stopRecording has been called, the recogniser is not started
\* again.
C16_EndedRecogniserRestarts ==
  [][/\ (/\ srState # "ended" /\ srState' = "ended"
         /\ currentRecordingId # NULL /\ stopAt < 0) => restartPending'
     /\ (stopAt >= 0 /\ stopAt' >= 0) => srState' # "starting"]_vars


C19_NoActiveRecordingChangesNothing ==
  [][/\ outcome'.error = "No active recording"
          => (/\ UNCHANGED <<svcVars, envVars>>
              /\ outcome'.request = ""
              /\ flushCall' = NoCall)
     /\ (nStops' > nStops /\ (mediaRecorder = NULL \/ currentRecordingId = NULL))
          => outcome'.error = "No active recording"
     /\ (/\ UNCHANGED <<svcVars, envVars, nFrags, nStarts, nStops, nSpeech,
                        drained, lastFlushTime, stopAt>>
         /\ currentRecordingId = NULL)
          => outcome'.error = "No active recording"
     /\ outcome'.request = "/transcription" => currentRecordingId # NULL]_vars

\* C19, reached: stopRecording has failed with "No active recording" on a
\* service that holds a recording id and a poll interval but no recorder.
C19_Witness ==
  /\ outcome = Outcome("No active recording", "")
  /\ nStops > 0
  /\ mediaRecorder = NULL
  /\ currentRecordingId # NULL
  /\ transcriptionInterval \in pollTimers


\* A tick of the processing interval: the only step that takes a timer from
\* due while the clock and stopRecording stand still.
TickStep == due' # due /\ now' = now /\ stopPc' = stopPc

\* C21: a tick that finds fragments in the queue appends all of them, in queue
\* order, to the buffer and leaves the queue empty; a tick that finds the queue
\* empty changes neither queue nor buffer nor lastProcessTime; no fragment is
\* in the buffer twice or in both queue and buffer; and a fragment the
\* recorder delivers goes to the end of the queue and not into the buffer.
C21_DrainIsAtomic ==
  [][/\ (TickStep /\ audioQueue # <<>>)
          => (/\ audioQueue' = <<>>
              /\ accumulatedAudio' = accumulatedAudio \o audioQueue)
     /\ (TickStep /\ audioQueue = <<>>)
          => UNCHANGED <<audioQueue, accumulatedAudio, lastProcessTime>>
     /\ Cardinality(Range(accumulatedAudio' \o audioQueue'))
          = Len(accumulatedAudio') + Len(audioQueue')
     /\ nFrags' > nFrags
          => (/\ audioQueue' = Append(audioQueue, nFrags')
              /\ accumulatedAudio' = accumulatedAudio)]_vars

\* C21, reached: a tick has drained fragment 1 into the buffer, and fragment
\* 2, delivered after that drain, waits in the queue.
C21_Witness ==
  /\ accumulatedAudio = <<1>>
  /\ audioQueue = <<2>>
  /\ lastProcessTime = TickMs
  /\ drained = <<1>>


\* C22: in every chunk request, chunk_count is the number of fragments of the
\* request's payload.
C22_ChunkCountIsPayloadLength ==
  \A i \in 1..Len(uploads) : uploads[i].chunk_count = Len(uploads[i].audio_data)

\* C23: every chunk request carries a recording id, also when its payload was
\* encoded while or after stopRecording cleared the session.
C23_ChunkCarriesRecordingId ==
  \A i \in 1..Len(uploads) : uploads[i].recording_id # NULL


\* C26: no chunk request is issued while the /recording/stop request of the
\* session is unanswered or after it was answered: the final flush's request
\* goes out before the stop request.
C26_NoChunkAfterStopRequest ==
  [][Len(uploads') > Len(uploads)
     => (/\ stopPending = 0
         /\ Last(uploads').audio_data # <<>> => Last(uploads').recording_id # NULL)]_vars


\* All calls the interface made have settled.
UiSettled == CallsSettled /\ stopPc = "idle" /\ ~endPending

\* The service is recording: it holds a recording id and a recorder that is
\* recording.
ServiceRecording ==
  /\ currentRecordingId # NULL
  /\ mediaRecorder # NULL
  /\ recorders[mediaRecorder].state = "recording"

\* C24: once the health check has settled, the status is 'connected' only if
\* the /health request succeeded and 'error' if it failed; until then it is
\* 'connecting'.
C24_StatusReflectsHealthRequest ==
  /\ backendStatus = "connected" => health = "ok"
  /\ health = "simulated" => backendStatus = "error"
  /\ health \in {"pending", "failed"} => backendStatus = "connecting"

\* C27: at most one processing interval is live, and none when the service
\* holds no recording id.
C27_AtMostOneProcessingTimer ==
  /\ Cardinality(timers) <= 1
  /\ currentRecordingId = NULL => timers = {}

\* C29: when all calls have settled, isRecording is true exactly when the
\* service is recording.
C29_IsRecordingAgreesWithService ==
  UiSettled => (isRecording <=> ServiceRecording)


\* C28: a tick that flushes on a timeout takes no payload that an earlier
\* flush has taken and that is still being encoded, is in an unanswered
\* request or was in a request that failed.
C28_TimeoutFlushNotRepeated ==
  [][(flushCall' \in {Str("phrase_timeout"), Str("idle_timeout")} /\ Took)
     => \A i \in 1..Len(Payloads) : Payloads[i] # Last(readers').blob]_vars


\* The readers and the requests of the per-fragment service that hold
\* fragment f.
HoldersOf(f) ==
  Cardinality({i \in 1..Len(readers) : readers[i].blob = <<f>>})
  + Cardinality({i \in 1..Len(uploads) : uploads[i].audio_data = <<f>>})

\* C25: in the per-fragment service a step that delivers a fragment with data
\* keeps it and starts one encoding of that fragment alone, which one request
\* carries later; a step that delivers no such fragment (a fragment of size 0)
\* keeps nothing and starts no encoding; every fragment with data is in exactly
\* one encoding or request.  In the queue-based service a step adds to the
\* queue exactly the fragment with data it delivers.
C25_OneUploadPerNonEmptyFragment ==
  [][/\ (Fragment /\ nFrags' > nFrags)
          => (/\ audioChunks' = Append(audioChunks, nFrags')
              /\ readers' = Append(readers, [blob |-> <<nFrags'>>]))
     /\ (Fragment /\ nFrags' = nFrags)
          => (/\ Len(readers') <= Len(readers)
              /\ audioChunks' = audioChunks \/ audioChunks' = <<>>)
     /\ (Fragment /\ Len(uploads') > Len(uploads))
          => (/\ Len(uploads') = Len(uploads) + 1
              /\ \E i \in 1..Len(readers) :
                   /\ Last(uploads').audio_data = readers[i].blob
                   /\ readers' = RemoveAt(readers, i))
     /\ Fragment => \A f \in 1..nFrags' : HoldersOf(f)' = 1
     /\ (Queue /\ nFrags' > nFrags) => audioQueue' = Append(audioQueue, nFrags')
     /\ (Queue /\ nFrags' = nFrags)
          => (audioQueue' = audioQueue \/ audioQueue' = <<>>)]_vars

\* C25, reached: the per-fragment service was stopped after two fragments with
\* data; both are kept and each is in a request of its own, and the recorder
\* has delivered its last fragment.
C25_Witness ==
  /\ Fragment
  /\ audioChunks = <<1, 2>>
  /\ readers = <<>>
  /\ {uploads[i].audio_data : i \in 1..Len(uploads)} = {<<1>>, <<2>>}
  /\ Len(uploads) = 2
  /\ recorders = <<[state |-> "inactive", tracks |-> FALSE, finalPending |-> FALSE]>>

\* C30: the chunk requests of the per-fragment service are issued in the
\* order in which the recorder delivered the fragments.
C30_RequestsInDeliveryOrder ==
  Fragment => \A i, j \in 1..Len(uploads) :
                i < j => uploads[i].audio_data[1] < uploads[j].audio_data[1]

====
